---- MODULE Spec2Model ----
(***************************************************************************)
(* Model of fallen_angel_scanner.py: the two-stage scan (stage 1 price and *)
(* market-cap filter, stage 2 deep analysis with the dedup gate), the      *)
(* price-alert scan over the tracked prices, the e-mail hand-off and the   *)
(* memory file that is loaded at the start of a run and saved after a      *)
(* successful delivery.                                                    *)
(*                                                                         *)
(* Numbers.  Prices and amounts are integers; every quotient the code      *)
(* computes in floating point is kept as an exact fraction [num, den] in   *)
(* lowest terms, so comparisons are those of the real-number formula (a    *)
(* binary float can differ from it only at an exact tie).                  *)
(* Time.  The wall clock counts ticks, TicksPerDay ticks to a day.         *)
(* Text.  A text is a sequence of one-character strings.                   *)
(* Optional values.  None is << >>, a present value v is << v >>.          *)
(***************************************************************************)
EXTENDS Integers, Sequences, FiniteSets, TLC

VARIABLES
    clock,            \* datetime.now(), in ticks
    file,             \* scanner_memory.json: << >> when absent, << store >> otherwise
    pc,               \* position of main(): idle, stage1, stage2, email, update, done
    memory,           \* main's `memory` dict
    price_alerts,     \* main's `price_alerts`
    all_tickers,      \* stage1_quick_filter's `all_tickers` list
    idx,              \* index of the next element of the running for-loop
    candidates,       \* stage 1's `candidates` list
    analyzed_stocks,  \* stage 2's `analyzed` list / main's `analyzed_stocks`
    notified,         \* what this run handed to send_email and its result
    inbox,            \* per ticker, the times of its last deliveries (recipient side)
    feed              \* the provider data read by the latest step, while it is the latest

vars == << clock, file, pc, memory, price_alerts, all_tickers, idx, candidates,
           analyzed_stocks, notified, inbox, feed >>

----------------------------------------------------------------------------
(* Configuration (fallen_angel_scanner.py, lines 50-58).                   *)

MIN_DROP_PERCENT == 20
DROP_LOOKBACK_DAYS == 21
MIN_MARKET_CAP == 2000000000
MAX_CANDIDATES == 10
DEDUP_DAYS == 14
\* PRICE_ALERT_THRESHOLD = 0.10, as the fraction 10 / 100
PRICE_ALERT_THRESHOLD == [num |-> 1, den |-> 10]
\* stage 1 skips a history of fewer than 10 rows (line 194)
MIN_HISTORY_ROWS == 10
\* search_recent_news keeps stock.news[:5] (line 241)
NEWS_ITEMS_KEPT == 5
\* stage 2 keeps news_headlines[:3] (line 404)
HEADLINES_KEPT == 3

----------------------------------------------------------------------------
(* Bounds of the model.                                                    *)

NumTickers == 2
TicksPerDay == 2
MaxClock == 30

Tickers == 1..NumTickers

----------------------------------------------------------------------------
(* Exact fractions.                                                        *)

Abs(n) == IF n < 0 THEN -n ELSE n

RECURSIVE Gcd(_, _)
Gcd(a, b) == IF b = 0 THEN a ELSE Gcd(b, a % b)

\* the fraction n / d, d # 0, in lowest terms with a positive denominator
Frac(n, d) ==
    LET g == Gcd(Abs(n), Abs(d))
        s == IF d < 0 THEN -1 ELSE 1
    IN  [num |-> (s * n) \div g, den |-> (s * d) \div g]

FracInt(n) == [num |-> n, den |-> 1]
FracNeg(a) == [num |-> -a.num, den |-> a.den]
FracLeq(a, b) == a.num * b.den <= b.num * a.den
FracLt(a, b) == a.num * b.den < b.num * a.den
FracAdd(a, b) == Frac(a.num * b.den + b.num * a.den, a.den * b.den)
FracMul(a, b) == Frac(a.num * b.num, a.den * b.den)

----------------------------------------------------------------------------
(* Optional values and dicts.                                              *)

None == << >>
Some(v) == << v >>
IsNone(o) == o = << >>
Val(o) == o[1]

\* d[k] = v on a dict (a function over its keys)
DictSet(d, k, v) == [x \in (DOMAIN d) \cup {k} |-> IF x = k THEN v ELSE d[x]]
EmptyDict == [x \in {} |-> 0]

----------------------------------------------------------------------------
(* Date and time.                                                          *)

\* datetime.isoformat(): the calendar date and the time of day
isoformat(t) == [date |-> t \div TicksPerDay, time |-> t % TicksPerDay]
\* datetime.fromisoformat()
fromisoformat_date_only(s) == s.date * TicksPerDay
fromisoformat(s) == s.date * TicksPerDay + s.time
\* strftime('%Y-%m-%d'): the calendar date alone
strftime_date(t) == t \div TicksPerDay
\* (a - b).days: a timedelta's whole days, rounded towards minus infinity
timedelta_days_rounded_up(a, b) == ((a - b) + TicksPerDay - 1) \div TicksPerDay
timedelta_days(a, b) == (a - b) \div TicksPerDay

----------------------------------------------------------------------------
(* Memory management.                                                      *)

EmptyMemory == [sent_stocks |-> EmptyDict, tracked_prices |-> EmptyDict]

\* file content that json.load rejects: an empty, cut-off or garbled text
Unparseable == [unparseable |-> TRUE]

\* file content that parses to something other than a JSON object
NotADict == [not_a_dict |-> TRUE]

\* a stored timestamp that datetime.fromisoformat rejects
GarbledTimestamp == [garbled |-> TRUE]

\* dict.get(key, default)
dict_get(d, key, default) == IF key \in DOMAIN d THEN d[key] ELSE default

\* load_memory(): whatever json.load makes of the file; the empty store when
\* there is no file or reading it raises
load_memory(f) ==
    IF IsNone(f) THEN EmptyMemory
    ELSE IF "unparseable" \in DOMAIN Val(f) THEN EmptyMemory
    ELSE Val(f)

\* save_memory(memory): the file written with json.dump, for a write that
\* succeeds (a failed write is caught and only printed)
save_memory(m) == Some(m)

should_send_stock_skips_never(ticker, m, now) == FALSE

\* should_send_stock(ticker, memory) evaluated at clock reading `now`
should_send_stock_skips(ticker, m, now) ==
    LET sent_stocks == dict_get(m, "sent_stocks", EmptyDict)
    IN  /\ ticker \in DOMAIN sent_stocks
        /\ timedelta_days(now, fromisoformat(sent_stocks[ticker])) < DEDUP_DAYS

should_send_stock(ticker, m, now) == ~should_send_stock_skips(ticker, m, now)

\* should_send_stock raises: the ticker's stored timestamp is not in ISO
\* format (line 85 is outside any try block)
should_send_stock_raises(ticker, m) ==
    LET sent_stocks == dict_get(m, "sent_stocks", EmptyDict)
    IN  /\ ticker \in DOMAIN sent_stocks
        /\ "garbled" \in DOMAIN sent_stocks[ticker]

----------------------------------------------------------------------------
(* Price alerts.                                                           *)

\* One pass of check_price_alerts' loop body for a tracked ticker, given the
\* latest close (None when the fetch raised): << >> or << alert >>.  A zero
\* original price raises ZeroDivisionError and an entry without a price or a
\* date raises KeyError, which the loop catches.
price_alert_for_since_zero(ticker, data, quote) ==
    IF IsNone(quote) \/ DOMAIN data # {"price", "date"} \/ data.price = 0 THEN << >>
    ELSE LET current_price == Val(quote)
             original_price == data.price
             drop_since_alert == Frac(current_price, original_price)
         IN  IF FracLeq(drop_since_alert, FracNeg(PRICE_ALERT_THRESHOLD))
             THEN << [ticker |-> ticker,
                      original_price |-> original_price,
                      current_price |-> current_price,
                      additional_drop |-> FracMul(drop_since_alert, FracInt(100)),
                      sent_date |-> data.date] >>
             ELSE << >>

price_alert_for(ticker, data, quote) ==
    IF IsNone(quote) \/ DOMAIN data # {"price", "date"} \/ data.price = 0 THEN << >>
    ELSE LET current_price == Val(quote)
             original_price == data.price
             drop_since_alert == Frac(current_price - original_price, original_price)
         IN  IF FracLeq(drop_since_alert, FracNeg(PRICE_ALERT_THRESHOLD))
             THEN << [ticker |-> ticker,
                      original_price |-> original_price,
                      current_price |-> current_price,
                      additional_drop |-> FracMul(drop_since_alert, FracInt(100)),
                      sent_date |-> data.date] >>
             ELSE << >>

\* check_price_alerts(memory): the alerts of all tracked tickers.  The list is
\* kept as a set: a dict holds each ticker once, and no claim reads its order.
check_price_alerts(m, quotes) ==
    LET tracked == dict_get(m, "tracked_prices", EmptyDict)
    IN  { Val(price_alert_for(t, tracked[t], quotes[t])) :
            t \in { u \in DOMAIN tracked :
                      ~IsNone(price_alert_for(u, tracked[u], quotes[u])) } }

\* check_price_alerts raises: memory.get on a value that is no dict (line 95
\* is outside the try block)
check_price_alerts_raises(m) == "not_a_dict" \in DOMAIN m

----------------------------------------------------------------------------
(* Stage 1.                                                                *)

\* info.get(key, default): the default only when the key is absent
info_get(info, key, default) == IF key \in DOMAIN info THEN info[key] ELSE Some(default)

\* the row of hist["Close"].iloc[-min(DROP_LOOKBACK_DAYS, len(hist))], counted
\* from 1, in a history of n rows
lookback_row_first(n) == 1
lookback_row_last_when_short(n) ==
    IF n < DROP_LOOKBACK_DAYS THEN n ELSE n - DROP_LOOKBACK_DAYS + 1
lookback_row(n) == n - (IF DROP_LOOKBACK_DAYS < n THEN DROP_LOOKBACK_DAYS ELSE n) + 1

\* One pass of stage1_quick_filter's loop body: << >> (skipped) or
\* << candidate >>.  fetched.info is None when stock.info raises, fetched.hist is
\* None when stock.history raises; a null marketCap makes the comparison
\* raise, a zero lookback price makes the division raise.
stage1_check(ticker, fetched, min_drop) ==
    IF IsNone(fetched.info) THEN << >>
    ELSE LET market_cap == info_get(Val(fetched.info), "marketCap", 0)
         IN  IF IsNone(market_cap) THEN << >>
             ELSE IF Val(market_cap) < MIN_MARKET_CAP THEN << >>
             ELSE IF IsNone(fetched.hist) THEN << >>
             ELSE LET hist == Val(fetched.hist)
                      n == Len(hist)
                  IN  IF n < MIN_HISTORY_ROWS THEN << >>
                      ELSE LET current_price == hist[n]
                               lookback_price == hist[lookback_row(n)]
                           IN  IF lookback_price = 0 THEN << >>
                               ELSE LET drop_pct == FracMul(Frac(current_price - lookback_price,
                                                                 lookback_price), FracInt(100))
                                    IN  IF FracLeq(drop_pct, FracInt(-min_drop))
                                        THEN << [ticker |-> ticker,
                                                 current_price |-> current_price,
                                                 drop_pct |-> drop_pct,
                                                 market_cap |-> Val(market_cap)] >>
                                        ELSE << >>

stage1_iteration(ticker, fetched) == stage1_check(ticker, fetched, MIN_DROP_PERCENT)

----------------------------------------------------------------------------
(* News.                                                                   *)

temporary_keywords ==
    << << "g", "u", "i", "d", "a", "n", "c", "e" >>,
       << "m", "i", "s", "s" >>,
       << "e", "a", "r", "n", "i", "n", "g", "s" >>,
       << "o", "u", "t", "l", "o", "o", "k" >>,
       << "f", "o", "r", "e", "c", "a", "s", "t" >>,
       << "d", "o", "w", "n", "g", "r", "a", "d", "e" >>,
       << "a", "n", "a", "l", "y", "s", "t" >>,
       << "s", "e", "c", "t", "o", "r" >>,
       << "m", "a", "r", "k", "e", "t" >>,
       << "s", "e", "l", "l", "o", "f", "f" >>,
       << "v", "a", "l", "u", "a", "t", "i", "o", "n" >>,
       << "p", "r", "o", "f", "i", "t", "-", "t", "a", "k", "i", "n", "g" >>,
       << "r", "o", "t", "a", "t", "i", "o", "n" >> >>

serious_keywords ==
    << << "f", "r", "a", "u", "d" >>,
       << "l", "a", "w", "s", "u", "i", "t" >>,
       << "i", "n", "v", "e", "s", "t", "i", "g", "a", "t", "i", "o", "n" >>,
       << "s", "c", "a", "n", "d", "a", "l" >>,
       << "b", "a", "n", "k", "r", "u", "p", "t", "c", "y" >>,
       << "d", "e", "l", "i", "s", "t", "i", "n", "g" >>,
       << "d", "e", "f", "a", "u", "l", "t" >>,
       << "l", "a", "y", "o", "f", "f" >>,
       << "r", "e", "s", "t", "r", "u", "c", "t", "u", "r" >>,
       << "c", "l", "o", "s", "u", "r", "e" >>,
       << "r", "e", "c", "a", "l", "l" >>,
       << "c", "r", "i", "m", "i", "n", "a", "l" >>,
       << "s", "e", "c", " ", "i", "n", "q", "u", "i", "r", "y" >> >>

\* the fallback headline of search_recent_news (line 255)
NO_NEWS_TEXT ==
    << "N", "o", " ", "s", "p", "e", "c", "i", "f", "i", "c", " ", "n", "e", "w", "s", " ",
       "f", "o", "u", "n", "d", " ", "-", " ", "c", "h", "e", "c", "k", " ",
       "m", "a", "r", "k", "e", "t", "-", "w", "i", "d", "e", " ", "t", "r", "e", "n", "d", "s" >>

\* the headline of search_recent_news when the fetch raises (line 258)
UNABLE_PREFIX ==
    << "U", "n", "a", "b", "l", "e", " ", "t", "o", " ", "f", "e", "t", "c", "h", " ",
       "n", "e", "w", "s", ":", " " >>

UpperCase == << "A", "B", "C", "D", "E", "F", "G", "H", "I", "J", "K", "L", "M",
                "N", "O", "P", "Q", "R", "S", "T", "U", "V", "W", "X", "Y", "Z" >>
LowerCase == << "a", "b", "c", "d", "e", "f", "g", "h", "i", "j", "k", "l", "m",
                "n", "o", "p", "q", "r", "s", "t", "u", "v", "w", "x", "y", "z" >>

\* str.lower(), on one character
lower_char(c) ==
    IF \E j \in 1..Len(UpperCase) : UpperCase[j] = c
    THEN LowerCase[CHOOSE j \in 1..Len(UpperCase) : UpperCase[j] = c]
    ELSE c

\* str.lower()
lower_not_applied(text) == text
lower(text) == [i \in 1..Len(text) |-> lower_char(text[i])]

\* ' '.join(texts)
RECURSIVE join(_)
join(texts) ==
    IF texts = << >> THEN << >>
    ELSE IF Len(texts) = 1 THEN texts[1]
    ELSE texts[1] \o << " " >> \o join(Tail(texts))

\* kw in text
contains(kw, text) ==
    \E i \in 1..(Len(text) - Len(kw) + 1) :
        \A j \in 1..Len(kw) : text[i + j - 1] = kw[j]

\* seq[:n]
take(seq, n) == SubSeq(seq, 1, IF Len(seq) < n THEN Len(seq) ELSE n)

\* the headlines search_recent_news builds from the kept news items
RECURSIVE headlines_of(_)
headlines_of(items) ==
    IF items = << >> THEN << >>
    ELSE LET item == items[1]
         IN  (IF item.title # << >>
              THEN << item.title \o << " ", "(" >> \o item.publisher \o << ")" >> >>
              ELSE << >>) \o headlines_of(Tail(items))

\* search_recent_news(ticker, company_name): news is None when reading
\* stock.news raises (with message news_error), else the provider's item list
search_recent_news(news, news_error) ==
    IF IsNone(news) THEN << UNABLE_PREFIX \o news_error >>
    ELSE LET headlines == headlines_of(take(Val(news), NEWS_ITEMS_KEPT))
         IN  IF headlines # << >> THEN headlines ELSE << NO_NEWS_TEXT >>

SERIOUS == "SERIOUS ISSUE"
TEMPORARY == "TEMPORARY NOISE"
UNCLEAR == "UNCLEAR"

\* analyze_news_sentiment(headlines): << news_sentiment, sentiment_reason >>
analyze_news_sentiment(headlines) ==
    LET news_text == lower(join(headlines))
        temp_count == Cardinality({ i \in 1..Len(temporary_keywords) :
                                      contains(temporary_keywords[i], news_text) })
        serious_count == Cardinality({ i \in 1..Len(serious_keywords) :
                                         contains(serious_keywords[i], news_text) })
    IN  IF serious_count > 0 THEN << SERIOUS, "Fundamental problem detected" >>
        ELSE IF temp_count > 0
             THEN << TEMPORARY, "Likely earnings/guidance miss or sector rotation" >>
        ELSE << UNCLEAR, "Need manual research" >>

----------------------------------------------------------------------------
(* Financial health and risk score.                                        *)

\* get_financial_health(ticker_obj): None when reading the fields raises (info
\* unavailable, or a null operand reaches a comparison or a division)
get_financial_health(info_opt) ==
    IF IsNone(info_opt) THEN None
    ELSE LET info == Val(info_opt)
             total_debt == info_get(info, "totalDebt", 0)
             total_equity == info_get(info, "totalStockholderEquity", 1)
             current_assets == info_get(info, "totalCurrentAssets", 0)
             current_liabilities == info_get(info, "totalCurrentLiabilities", 1)
             cash == info_get(info, "totalCash", 0)
             revenue == info_get(info, "totalRevenue", 0)
         IN  IF IsNone(total_equity) THEN None
             ELSE IF Val(total_equity) > 0 /\ IsNone(total_debt) THEN None
             ELSE IF IsNone(current_liabilities) THEN None
             ELSE IF Val(current_liabilities) > 0 /\ IsNone(current_assets) THEN None
             ELSE Some([debt_to_equity |->
                           IF Val(total_equity) > 0
                           THEN Frac(Val(total_debt), Val(total_equity))
                           ELSE FracInt(999),
                        current_ratio |->
                           IF Val(current_liabilities) > 0
                           THEN Frac(Val(current_assets), Val(current_liabilities))
                           ELSE FracInt(0),
                        cash |-> cash,
                        revenue |-> revenue])

Max(a, b) == IF a > b THEN a ELSE b
Min(a, b) == IF a < b THEN a ELSE b

\* max(1, min(10, round(score))); score is an int here, which round() returns unchanged
clamp_score_floor_only(score) == Max(1, score)
clamp_score(score) == Max(1, Min(10, score))

\* calculate_risk_score(financial_health, news_sentiment)
calculate_risk_score_unknown_by_news(financial_health, news_sentiment) ==
    LET news == IF news_sentiment = SERIOUS THEN 3
                ELSE IF news_sentiment = TEMPORARY THEN -1
                ELSE 0
    IN  IF IsNone(financial_health) THEN clamp_score(8 + news)
        ELSE LET h == Val(financial_health)
                 debt == IF FracLt(h.debt_to_equity, Frac(3, 10)) THEN -2
                         ELSE IF FracLt(FracInt(1), h.debt_to_equity) THEN 2
                         ELSE 0
                 liquidity == IF FracLt(FracInt(2), h.current_ratio) THEN -1
                              ELSE IF FracLt(h.current_ratio, FracInt(1)) THEN 2
                              ELSE 0
                 revenue == IF h.revenue = Some(0) THEN 2 ELSE 0
             IN  clamp_score(5 + debt + liquidity + revenue + news)

calculate_risk_score_leverage_from_one(financial_health, news_sentiment) ==
    IF IsNone(financial_health) THEN 8
    ELSE LET h == Val(financial_health)
             debt == IF FracLt(h.debt_to_equity, Frac(3, 10)) THEN -2
                     ELSE IF FracLeq(FracInt(1), h.debt_to_equity) THEN 2
                     ELSE 0
             liquidity == IF FracLt(FracInt(2), h.current_ratio) THEN -1
                          ELSE IF FracLt(h.current_ratio, FracInt(1)) THEN 2
                          ELSE 0
             revenue == IF h.revenue = Some(0) THEN 2 ELSE 0
             news == IF news_sentiment = SERIOUS THEN 3
                     ELSE IF news_sentiment = TEMPORARY THEN -1
                     ELSE 0
         IN  clamp_score(5 + debt + liquidity + revenue + news)

calculate_risk_score(financial_health, news_sentiment) ==
    IF IsNone(financial_health) THEN 8
    ELSE LET h == Val(financial_health)
             debt == IF FracLt(h.debt_to_equity, Frac(3, 10)) THEN -2
                     ELSE IF FracLt(FracInt(1), h.debt_to_equity) THEN 2
                     ELSE 0
             liquidity == IF FracLt(FracInt(2), h.current_ratio) THEN -1
                          ELSE IF FracLt(h.current_ratio, FracInt(1)) THEN 2
                          ELSE 0
             revenue == IF h.revenue = Some(0) THEN 2 ELSE 0
             news == IF news_sentiment = SERIOUS THEN 3
                     ELSE IF news_sentiment = TEMPORARY THEN -1
                     ELSE 0
         IN  clamp_score(5 + debt + liquidity + revenue + news)

----------------------------------------------------------------------------
(* Stage 2.                                                                *)

RECURSIVE insert_close(_, _)
insert_close(x, s) ==
    IF s = << >> THEN << x >>
    ELSE IF s[1] <= x THEN << s[1] >> \o insert_close(x, Tail(s))
    ELSE << x >> \o s

RECURSIVE sort_closes(_)
sort_closes(s) ==
    IF s = << >> THEN << >>
    ELSE insert_close(s[Len(s)], sort_closes(SubSeq(s, 1, Len(s) - 1)))

\* Series.quantile(0.80) with linear interpolation, on a non-empty series
quantile80(closes) ==
    LET v == sort_closes(closes)
        n == Len(v)
        lo == (4 * (n - 1)) \div 5
        rest == Frac(4 * (n - 1) - 5 * lo, 5)
    IN  IF lo + 2 > n THEN FracInt(v[lo + 1])
        ELSE FracAdd(FracInt(v[lo + 1]), FracMul(rest, FracInt(v[lo + 2] - v[lo + 1])))

\* lines 380-381: the headlines of a ticker and their class
news_analysis(news, news_error) ==
    LET news_headlines == search_recent_news(news, news_error)
        sentiment == analyze_news_sentiment(news_headlines)
    IN  [news_headlines |-> news_headlines,
         news_sentiment |-> sentiment[1],
         sentiment_reason |-> sentiment[2]]

\* lines 373-388: what stage 2 derives for a ticker from its health, its
\* analysed news and the year's closes
research_of(health, analysed_news, year_hist) ==
    [financial_health |-> health,
     news_headlines |-> analysed_news.news_headlines,
     news_sentiment |-> analysed_news.news_sentiment,
     sentiment_reason |-> analysed_news.sentiment_reason,
     risk_score |-> calculate_risk_score(health, analysed_news.news_sentiment),
     stable_high |-> quantile80(year_hist)]

\* What the try block of stage2_deep_analysis (lines 361-388) learns from the
\* providers for one ticker: None when a fetch raises
stage2_research(fetched) ==
    IF IsNone(fetched.info) \/ IsNone(fetched.year_hist) THEN None
    ELSE Some(research_of(get_financial_health(fetched.info),
                          news_analysis(fetched.news, fetched.news_error),
                          Val(fetched.year_hist)))

\* The analysis of one candidate that passed the dedup gate: << >> when the
\* try block raises (a fetch, or the division by a zero price), else
\* << analyzed stock >>.  The fields that only label the e-mail (company,
\* market, currency, broker, earnings date) are left out.
stage2_analyze(candidate, research) ==
    IF IsNone(research) \/ candidate.current_price = 0 THEN << >>
    ELSE LET r == Val(research)
             recovery_potential ==
                 FracMul(FracAdd(FracMul(r.stable_high, Frac(1, candidate.current_price)),
                                 FracInt(-1)),
                         FracInt(100))
         IN  << [ticker |-> candidate.ticker,
                 current_price |-> candidate.current_price,
                 drop_pct |-> candidate.drop_pct,
                 recovery_potential |-> recovery_potential,
                 risk_score |-> r.risk_score,
                 news_headlines |-> take(r.news_headlines, HEADLINES_KEPT),
                 news_sentiment |-> r.news_sentiment,
                 sentiment_reason |-> r.sentiment_reason,
                 financial_health |-> r.financial_health] >>

\* One pass of stage2_deep_analysis' loop body at clock reading `now`
stage2_iteration(candidate, m, now, research) ==
    IF ~should_send_stock(candidate.ticker, m, now) THEN << >>
    ELSE stage2_analyze(candidate, research)

----------------------------------------------------------------------------
(* E-mail.                                                                 *)

RECURSIVE insert_by_risk_before_equals(_, _)
insert_by_risk_before_equals(x, s) ==
    IF s = << >> THEN << x >>
    ELSE IF s[1].risk_score < x.risk_score
         THEN << s[1] >> \o insert_by_risk_before_equals(x, Tail(s))
    ELSE << x >> \o s

RECURSIVE insert_by_risk(_, _)
insert_by_risk(x, s) ==
    IF s = << >> THEN << x >>
    ELSE IF s[1].risk_score <= x.risk_score THEN << s[1] >> \o insert_by_risk(x, Tail(s))
    ELSE << x >> \o s

\* analyzed_stocks.sort(key=lambda x: x['risk_score']): ascending and stable
RECURSIVE sort_by_risk_score(_)
sort_by_risk_score(s) ==
    IF s = << >> THEN << >>
    ELSE insert_by_risk(s[Len(s)], sort_by_risk_score(SubSeq(s, 1, Len(s) - 1)))

\* generate_email_html(analyzed_stocks, price_alerts): the list in the order
\* the report shows it; the call sorts main's list in place
generate_email_html(stocks) == sort_by_risk_score(stocks)

\* send_email(subject, html_body): False without a password, else the SMTP result
send_email(has_password, smtp_ok) == has_password /\ smtp_ok

\* main's memory update (lines 655-660) with every datetime.now() reading `now`
RECURSIVE update_memory_from_empty(_, _, _)
update_memory_from_empty(m, stocks, now) ==
    IF stocks = << >> THEN EmptyMemory
    ELSE LET rest == update_memory_from_empty(m, Tail(stocks), now)
         IN  [sent_stocks |-> DictSet(rest.sent_stocks, stocks[1].ticker, isoformat(now)),
              tracked_prices |-> DictSet(rest.tracked_prices, stocks[1].ticker,
                                         [price |-> stocks[1].current_price,
                                          date |-> strftime_date(now)])]

\* the update raises KeyError: the loaded memory lacks one of the mappings
update_memory_raises(m, stocks) ==
    /\ stocks # << >>
    /\ ("sent_stocks" \notin DOMAIN m \/ "tracked_prices" \notin DOMAIN m)

RECURSIVE update_memory_single_price(_, _, _)
update_memory_single_price(m, stocks, now) ==
    IF stocks = << >> THEN m
    ELSE LET stock == stocks[1]
             m1 == [sent_stocks |-> DictSet(m.sent_stocks, stock.ticker, isoformat(now)),
                    tracked_prices |-> DictSet(EmptyDict, stock.ticker,
                                               [price |-> stock.current_price,
                                                date |-> strftime_date(now)])]
         IN  update_memory_single_price(m1, Tail(stocks), now)

RECURSIVE update_memory_sent_only(_, _, _)
update_memory_sent_only(m, stocks, now) ==
    IF stocks = << >> THEN m
    ELSE LET stock == stocks[1]
             m1 == [sent_stocks |-> DictSet(m.sent_stocks, stock.ticker, isoformat(now)),
                    tracked_prices |-> m.tracked_prices]
         IN  update_memory_sent_only(m1, Tail(stocks), now)

RECURSIVE update_memory(_, _, _)
update_memory(m, stocks, now) ==
    IF stocks = << >> THEN m
    ELSE LET stock == stocks[1]
             m1 == [sent_stocks |-> DictSet(m.sent_stocks, stock.ticker, isoformat(now)),
                    tracked_prices |-> DictSet(m.tracked_prices, stock.ticker,
                                               [price |-> stock.current_price,
                                                date |-> strftime_date(now)])]
         IN  update_memory(m1, Tail(stocks), now)

----------------------------------------------------------------------------
(* Data the external providers can return in the pipeline specification.   *)

\* a close series of n rows: `before` up to the last k rows, `after` on them
Series(n, k, before, after) == [i \in 1..n |-> IF i <= n - k THEN before ELSE after]

AbsentInfo == [x \in {} |-> None]
InfoCap(cap) == "marketCap" :> Some(cap)

\* stage 1: the provider raises, a company below the floor, a flat month and
\* two falls over the lookback window (150 -> 100 and 100 -> 70)
Stage1Feeds ==
    { [info |-> None, hist |-> None],
      [info |-> Some(InfoCap(MIN_MARKET_CAP - 1)), hist |-> Some(Series(22, 5, 150, 100))],
      [info |-> Some(InfoCap(MIN_MARKET_CAP)), hist |-> Some(Series(22, 5, 100, 100))],
      [info |-> Some(InfoCap(MIN_MARKET_CAP)), hist |-> Some(Series(22, 5, 150, 100))],
      [info |-> Some(InfoCap(MIN_MARKET_CAP + 1)), hist |-> Some(Series(22, 20, 100, 70))] }

\* fundamentals: a sound balance sheet, a distressed one, and one whose
\* equity field is null (the health is then unknown)
InfoSound ==
    ("totalDebt" :> Some(10)) @@ ("totalStockholderEquity" :> Some(100)) @@
    ("totalCurrentAssets" :> Some(300)) @@ ("totalCurrentLiabilities" :> Some(100)) @@
    ("totalCash" :> Some(50)) @@ ("totalRevenue" :> Some(500))
InfoDistressed ==
    ("totalDebt" :> Some(300)) @@ ("totalStockholderEquity" :> Some(100)) @@
    ("totalCurrentAssets" :> Some(50)) @@ ("totalCurrentLiabilities" :> Some(100)) @@
    ("totalCash" :> Some(0)) @@ ("totalRevenue" :> Some(0))
InfoNullEquity ==
    ("totalDebt" :> Some(10)) @@ ("totalStockholderEquity" :> None)

TitleFraud == << "S", "E", "C", " ", "f", "r", "a", "u", "d", " ", "p", "r", "o", "b", "e" >>
TitleQuiet == << "S", "h", "a", "r", "e", "s", " ", "s", "l", "i", "d", "e" >>
PubWire == << "W", "i", "r", "e" >>
ErrTimeout == << "t", "i", "m", "e", "d", " ", "o", "u", "t" >>

\* a year of closes whose 80th percentile is 210, and one where it is 148
YearHigh == << 100, 150, 150, 210, 210, 210 >>
YearLow == << 100, 120, 140, 160 >>

\* stage 2: the provider raises; sound, quiet news, modest upside; unknown
\* health, large upside; distressed with a fraud headline, large upside
Stage2Feeds ==
    { [info |-> None, news |-> None, news_error |-> ErrTimeout, year_hist |-> None],
      [info |-> Some(InfoSound),
       news |-> Some(<< [title |-> TitleQuiet, publisher |-> PubWire] >>),
       news_error |-> << >>, year_hist |-> Some(YearLow)],
      [info |-> Some(InfoNullEquity), news |-> Some(<< >>),
       news_error |-> << >>, year_hist |-> Some(YearHigh)],
      [info |-> Some(InfoDistressed),
       news |-> Some(<< [title |-> TitleFraud, publisher |-> PubWire] >>),
       news_error |-> << >>, year_hist |-> Some(YearHigh)] }

\* what stage 2 learns from each of them
Stage2Research == { stage2_research(f) : f \in Stage2Feeds }

\* latest closes for the price-alert scan: the fetch raises, or a close
QuoteChoices == { None, Some(62), Some(95) }

\* the instants at which the clock is read: the start, half a day on, five
\* days on, and from thirteen and a half days on
ClockReadings ==
    { t \in 0..MaxClock :
        \/ t <= 1
        \/ t = 5 * TicksPerDay
        \/ t >= (DEDUP_DAYS * TicksPerDay) - 1 }

RECURSIVE Orders(_)
Orders(S) ==
    IF S = {} THEN { << >> }
    ELSE UNION { { << x >> \o p : p \in Orders(S \ {x}) } : x \in S }

\* the ticker tables of tickers_config: every ticker is in the S&P 500
\* table, the first one also in the Nasdaq 100 table, the last one also
\* among the hand-picked fallen-angel candidates; the tables of the other
\* exchanges add nothing here
get_sp500_tickers == [i \in 1..NumTickers |-> i]
get_nasdaq100_tickers == << 1 >>
get_wse_tickers == << >>
get_ftse100_tickers == << >>
get_tase_tickers == << >>
get_dax_tickers == << >>
get_fallen_angel_candidates == << NumTickers >>

\* stage1_quick_filter, lines 162-169: the tables one after the other
extended_tickers ==
    get_sp500_tickers \o get_nasdaq100_tickers \o get_wse_tickers \o
    get_ftse100_tickers \o get_tase_tickers \o get_dax_tickers \o
    get_fallen_angel_candidates

\* list(set(tickers)): each element once, in the order of a hashed set of
\* strings, which differs from process to process
list_of_set_keeps_duplicates(tickers) == { tickers }
list_of_set(tickers) == Orders({ tickers[i] : i \in 1..Len(tickers) })

----------------------------------------------------------------------------
(* The run: main().                                                        *)

InitAt(position, tickers) ==
    /\ clock = 0
    /\ file = None
    /\ pc = position
    /\ memory = EmptyMemory
    /\ price_alerts = {}
    /\ all_tickers = << >>
    /\ idx = 0
    /\ candidates = << >>
    /\ analyzed_stocks = << >>
    /\ notified = None
    /\ inbox = [t \in tickers |-> << >>]
    /\ feed = None

Init == InitAt("idle", Tickers)

\* time passes: between runs, and between the delivery and the memory update
Tick ==
    /\ pc \in {"idle", "update"}
    /\ \E t \in ClockReadings : t > clock /\ clock' = t
    /\ UNCHANGED << file, pc, memory, price_alerts, all_tickers, idx, candidates,
                    analyzed_stocks, notified, inbox, feed >>

\* main, lines 620-627, and stage1_quick_filter up to its loop (161-175):
\* load the memory, scan the tracked prices, build the ticker list.
\* list(set(...)) yields the tickers once each, in the order of a hashed set.
MainStartOn(tickers, quote_choices, orders) ==
    /\ pc = "idle"
    /\ memory' = load_memory(file)
    /\ IF check_price_alerts_raises(memory')
       THEN /\ price_alerts' = {}
            /\ feed' = None
            /\ all_tickers' = << >>
            /\ idx' = 0
            /\ pc' = "crashed"
       ELSE /\ \E quotes \in [tickers -> quote_choices] :
                  /\ price_alerts' = check_price_alerts(memory', quotes)
                  /\ feed' = Some(quotes)
            /\ all_tickers' \in orders
            /\ idx' = 1
            /\ pc' = "stage1"
    /\ candidates' = << >>
    /\ analyzed_stocks' = << >>
    /\ notified' = None
    /\ UNCHANGED << clock, file, inbox >>

MainStart == MainStartOn(Tickers, QuoteChoices, list_of_set(extended_tickers))

\* one pass of stage 1's loop; after the last one, main's lines 630-642
Stage1StepOn(feeds) ==
    /\ pc = "stage1"
    /\ \E f \in feeds :
          candidates' = candidates \o stage1_iteration(all_tickers[idx], f)
    /\ IF idx < Len(all_tickers)
       THEN idx' = idx + 1 /\ pc' = "stage1"
       ELSE /\ idx' = 1
            /\ pc' = IF candidates' = << >> /\ price_alerts = {} THEN "done"
                     ELSE IF candidates' # << >> THEN "stage2"
                     ELSE "email"
    /\ feed' = None
    /\ UNCHANGED << clock, file, memory, price_alerts, all_tickers, analyzed_stocks,
                    notified, inbox >>

Stage1Step == Stage1StepOn(Stage1Feeds)

\* one pass of stage 2's loop; after the last one, main's line 642
Stage2StepOn(research) ==
    /\ pc = "stage2"
    /\ IF should_send_stock_raises(candidates[idx].ticker, memory)
       THEN /\ analyzed_stocks' = analyzed_stocks
            /\ idx' = idx
            /\ pc' = "crashed"
       ELSE /\ \E r \in research :
                  analyzed_stocks' =
                      analyzed_stocks \o stage2_iteration(candidates[idx], memory, clock, r)
            /\ IF idx < Len(candidates)
               THEN idx' = idx + 1 /\ pc' = "stage2"
               ELSE /\ idx' = 1
                    /\ pc' = IF analyzed_stocks' # << >> \/ price_alerts # {} THEN "email"
                             ELSE "done"
    /\ UNCHANGED << clock, file, memory, price_alerts, all_tickers, candidates,
                    notified, inbox, feed >>

Stage2Step == Stage2StepOn(Stage2Research)

\* the recipient's record of a ticker's deliveries, the last two kept
Delivered(log, now) == IF Len(log) < 2 THEN Append(log, now) ELSE << log[2], now >>

\* main, line 653: the memory is updated only if send_email returned True
main_after_send_always(ok) == "update"
main_after_send(ok) == IF ok THEN "update" ELSE "done"

\* main, lines 647-653: build the report and hand it to send_email
SendEmailOn(tickers) ==
    /\ pc = "email"
    /\ analyzed_stocks' = generate_email_html(analyzed_stocks)
    /\ \E has_password \in BOOLEAN, smtp_ok \in BOOLEAN :
          LET ok == send_email(has_password, smtp_ok)
          IN  /\ notified' = Some([stocks |-> analyzed_stocks',
                                   alerts |-> price_alerts,
                                   delivered |-> ok,
                                   has_password |-> has_password,
                                   at |-> clock])
              /\ inbox' = [t \in tickers |->
                             IF ok /\ \E i \in 1..Len(analyzed_stocks') :
                                         analyzed_stocks'[i].ticker = t
                             THEN Delivered(inbox[t], clock)
                             ELSE inbox[t]]
              /\ pc' = main_after_send(ok)
    /\ UNCHANGED << clock, file, memory, price_alerts, all_tickers, idx, candidates, feed >>

SendEmail == SendEmailOn(Tickers)

\* main, lines 654-663: record the sent stocks and save the memory; a
\* KeyError in the loop ends the process before save_memory
UpdateMemory ==
    /\ pc = "update"
    /\ IF update_memory_raises(memory, analyzed_stocks)
       THEN /\ pc' = "crashed"
            /\ UNCHANGED << memory, file >>
       ELSE /\ memory' = update_memory(memory, analyzed_stocks, clock)
            /\ file' = save_memory(memory')
            /\ pc' = "done"
    /\ UNCHANGED << clock, price_alerts, all_tickers, idx, candidates, analyzed_stocks,
                    notified, inbox, feed >>

\* the process ends, normally or on an uncaught exception; its variables go
\* with it
Exit ==
    /\ pc \in {"done", "crashed"}
    /\ pc' = "idle"
    /\ memory' = EmptyMemory
    /\ price_alerts' = {}
    /\ all_tickers' = << >>
    /\ idx' = 0
    /\ candidates' = << >>
    /\ analyzed_stocks' = << >>
    /\ notified' = None
    /\ feed' = None
    /\ UNCHANGED << clock, file, inbox >>

Next ==
    \/ Tick
    \/ MainStart
    \/ Stage1Step
    \/ Stage2Step
    \/ SendEmail
    \/ UpdateMemory
    \/ Exit

Spec == Init /\ [][Next]_vars

----------------------------------------------------------------------------
(* Claims about the memory write and the dedup gate.                       *)

DedupTicks == DEDUP_DAYS * TicksPerDay

OutputTickers(stocks) == { stocks[i].ticker : i \in 1..Len(stocks) }

\* the run has ended after send_email returned False
DeliveryFailed == pc = "done" /\ notified # None /\ ~Val(notified).delivered

\* C1: when send_email reports a failure (a missing password included), the
\* memory file at the end of the run holds exactly the store the run loaded,
\* and every ticker of the failed report still passes the dedup gate.
C1_FailedDeliveryKeepsStore ==
    DeliveryFailed =>
        /\ load_memory(file) = memory
        /\ \A t \in OutputTickers(Val(notified).stocks) :
              should_send_stock(t, load_memory(file), clock)

C1_Witness ==
    /\ DeliveryFailed
    /\ ~Val(notified).has_password
    /\ Val(notified).stocks # << >>
    /\ file # None

\* the step that ends a run whose delivery was confirmed
ConfirmedRunEnds ==
    /\ notified # None
    /\ Val(notified).delivered
    /\ pc # "done"
    /\ pc' = "done"

GateTime == IF pc = "update" THEN Val(notified).at ELSE clock

\* C3: no stock gets through the dedup gate whose ticker was recorded as sent
\* less than DEDUP_DAYS days before; and the gate lets a ticker through if
\* and only if it has no sent_stocks entry or the entry is DEDUP_DAYS days
\* old or older (not through 5 days after, through 15 days after).
C3_DedupGate ==
    /\ pc \in {"stage2", "email", "update"} =>
          \A t \in OutputTickers(analyzed_stocks) :
              t \in DOMAIN memory.sent_stocks =>
                  GateTime - fromisoformat(memory.sent_stocks[t]) >= DedupTicks
    /\ LET m == load_memory(file)
       IN  \A t \in Tickers :
              /\ t \notin DOMAIN m.sent_stocks => should_send_stock(t, m, clock)
              /\ t \in DOMAIN m.sent_stocks =>
                    LET T == fromisoformat(m.sent_stocks[t])
                    IN  /\ should_send_stock(t, m, clock) <=> clock - T >= DedupTicks
                        /\ ~should_send_stock(t, m, T + 5 * TicksPerDay)
                        /\ should_send_stock(t, m, T + 15 * TicksPerDay)

\* a run that lets one ticker through again, 14 days or more after it was
\* sent, and drops a candidate sent less than 14 days before
C3_Witness ==
    /\ pc = "email"
    /\ \E t \in OutputTickers(analyzed_stocks) : t \in DOMAIN memory.sent_stocks
    /\ \E c \in OutputTickers(candidates) :
          /\ c \notin OutputTickers(analyzed_stocks)
          /\ c \in DOMAIN memory.sent_stocks
          /\ clock - fromisoformat(memory.sent_stocks[c]) < DedupTicks
          /\ clock - fromisoformat(memory.sent_stocks[c]) > 0

----------------------------------------------------------------------------
(* Claims about the price-alert scan and the report.                       *)

AlertedTickers(alerts) == { a.ticker : a \in alerts }

\* the state right after the scan, with the closes the scan fetched
ScanJustRan == pc = "stage1" /\ feed # None

\* C6: for every tracked ticker whose latest close was fetched, the scan
\* emits an alert if and only if current/reference - 1 <= -0.10, and the
\* alert carries (current/reference - 1) * 100; the scan covers all tracked
\* tickers before stage 1 and its alerts reach send_email unchanged
\* (reference 100: a close of 88 fires with -12, a close of 95 does not).
C6_ScanDecides ==
    /\ ScanJustRan =>
          LET quotes == Val(feed)
              tracked == memory.tracked_prices
          IN  /\ \A a \in price_alerts :
                    /\ a.ticker \in DOMAIN tracked
                    /\ quotes[a.ticker] # None
                    /\ a.current_price = Val(quotes[a.ticker])
                    /\ a.original_price = tracked[a.ticker].price
                    /\ a.additional_drop.num * a.original_price =
                           (a.current_price - a.original_price) * 100 * a.additional_drop.den
                    /\ \A b \in price_alerts : b.ticker = a.ticker => b = a
              /\ \A t \in DOMAIN tracked :
                    quotes[t] # None =>
                        (t \in AlertedTickers(price_alerts)
                            <=> 10 * (Val(quotes[t]) - tracked[t].price) <= -tracked[t].price)
    /\ price_alert_for(1, [price |-> 100, date |-> 0], Some(88)) =
           << [ticker |-> 1, original_price |-> 100, current_price |-> 88,
               additional_drop |-> FracInt(-12), sent_date |-> 0] >>
    /\ price_alert_for(1, [price |-> 100, date |-> 0], Some(95)) = << >>

C6_AlertsKept ==
    /\ (pc # "idle" /\ pc' # "idle") => price_alerts' = price_alerts
    /\ notified' # None => Val(notified').alerts = price_alerts

C8_NoHighRiskInOutput ==
    notified # None =>
        \A i \in 1..Len(Val(notified).stocks) : Val(notified).stocks[i].risk_score <= 7

\* the place of a ticker in the order stage 1 discovered the candidates
DiscoveryPlace(t) == CHOOSE i \in 1..Len(candidates) : candidates[i].ticker = t

----------------------------------------------------------------------------
(* The risk score over a wide range of fundamentals and news.              *)

\* a field of stock.info: absent, null, or a number
FieldChoices(key, numbers) ==
    { AbsentInfo, key :> None } \cup { key :> Some(n) : n \in numbers }

RiskInfos ==
    { d @@ e @@ a @@ l @@ r :
        d \in FieldChoices("totalDebt", {0, 29, 30, 100, 101}),
        e \in FieldChoices("totalStockholderEquity", {-5, 0, 100}),
        a \in FieldChoices("totalCurrentAssets", {99, 100, 200, 201}),
        l \in FieldChoices("totalCurrentLiabilities", {0, 100}),
        r \in FieldChoices("totalRevenue", {0, 500}) }

TitleMiss == << "E", "a", "r", "n", "i", "n", "g", "s", " ", "m", "i", "s", "s" >>

\* news of each class: a fraud headline, an earnings headline, a headline
\* without keywords, no news at all, and a fetch that raises
NewsAnalyses ==
    { news_analysis(Some(<< [title |-> TitleFraud, publisher |-> PubWire] >>), << >>),
      news_analysis(Some(<< [title |-> TitleMiss, publisher |-> PubWire] >>), << >>),
      news_analysis(Some(<< [title |-> TitleQuiet, publisher |-> PubWire] >>), << >>),
      news_analysis(Some(<< >>), << >>),
      news_analysis(None, ErrTimeout) }

ProbeCandidate ==
    [ticker |-> 1, current_price |-> 100, drop_pct |-> FracInt(-30),
     market_cap |-> MIN_MARKET_CAP]

\* stage 2 analyses one candidate: any fundamentals (or none: stock.info
\* raises inside get_financial_health only), any news
RiskProbe ==
    /\ pc = "risk"
    /\ \E info \in { None } \cup { Some(i) : i \in RiskInfos }, n \in NewsAnalyses :
          /\ feed' = Some([info |-> info, news_sentiment |-> n.news_sentiment])
          /\ analyzed_stocks' =
                stage2_analyze(ProbeCandidate,
                               Some(research_of(get_financial_health(info), n, YearHigh)))
    /\ pc' = "risk_done"
    /\ UNCHANGED << clock, file, memory, price_alerts, all_tickers, idx, candidates,
                    notified, inbox >>

SpecRisk == InitAt("risk", Tickers) /\ [][RiskProbe]_vars

\* C5: every analysed stock has an integer risk score from 1 to 10, whatever
\* the fundamentals (known or unknown) and the news class.
C5_RiskScoreInRange ==
    \A i \in 1..Len(analyzed_stocks) : analyzed_stocks[i].risk_score \in 1..10

\* the most adverse case: debt above equity, current ratio below 1, no
\* revenue and a serious headline (5 + 2 + 2 + 2 + 3 before the clamp)
C5_Witness ==
    /\ pc = "risk_done"
    /\ analyzed_stocks # << >>
    /\ analyzed_stocks[1].risk_score = 10
    /\ analyzed_stocks[1].news_sentiment = SERIOUS
    /\ analyzed_stocks[1].financial_health # None
    /\ Val(analyzed_stocks[1].financial_health).revenue = Some(0)
    /\ FracLt(FracInt(1), Val(analyzed_stocks[1].financial_health).debt_to_equity)
    /\ FracLt(Val(analyzed_stocks[1].financial_health).current_ratio, FracInt(1))

----------------------------------------------------------------------------
(* Stage 1 over a wide range of market caps and price histories.           *)

Stage1ProbeFeeds ==
    { [info |-> None, hist |-> None] } \cup
    { [info |-> Some(i), hist |-> h] :
        i \in FieldChoices("marketCap", {0, MIN_MARKET_CAP - 1, MIN_MARKET_CAP,
                                         MIN_MARKET_CAP + 1}),
        h \in { None } \cup
              { Some(Series(n, k, p[1], p[2])) :
                  n \in {9, 10, 20, 21, 22, 30},
                  k \in {0, 1, 8, 20, 21},
                  p \in { << 100, 70 >>, << 100, 80 >>, << 100, 81 >>, << 100, 100 >>,
                          << 70, 100 >>, << 0, 50 >> } } }

Stage1Probe ==
    /\ pc = "stage1_probe"
    /\ \E f \in Stage1ProbeFeeds, t \in Tickers :
          /\ feed' = Some(f)
          /\ candidates' = stage1_iteration(t, f)
    /\ pc' = "stage1_done"
    /\ UNCHANGED << clock, file, memory, price_alerts, all_tickers, idx,
                    analyzed_stocks, notified, inbox >>

SpecStage1 == InitAt("stage1_probe", Tickers) /\ [][Stage1Probe]_vars

\* 30 rows: 100 up to the lookback row, 70 on the 20 rows after it
Example30 ==
    [info |-> Some(InfoCap(MIN_MARKET_CAP)), hist |-> Some(Series(30, 20, 100, 70))]

\* the fetch gave a market cap (or none, read as 0) and a history that
\* reaches back DROP_LOOKBACK_DAYS rows to a positive close
FullHistoryFetched ==
    /\ feed # None
    /\ Val(feed).info # None
    /\ info_get(Val(Val(feed).info), "marketCap", 0) # None
    /\ Val(feed).hist # None
    /\ Len(Val(Val(feed).hist)) >= DROP_LOOKBACK_DAYS
    /\ Val(Val(feed).hist)[Len(Val(Val(feed).hist)) - DROP_LOOKBACK_DAYS + 1] > 0

\* C7: for a symbol whose history reaches back DROP_LOOKBACK_DAYS rows,
\* stage 1 emits a candidate if and only if the market cap is at least
\* MIN_MARKET_CAP and drop_pct = (last - close_at(-DROP_LOOKBACK_DAYS)) /
\* close_at(-DROP_LOOKBACK_DAYS) * 100 is at most -MIN_DROP_PERCENT, and the
\* candidate carries that drop_pct (100 then 70: -30 passes a threshold of
\* 20 and is rejected by a threshold of 35).
C7_Stage1Filter ==
    /\ (pc = "stage1_done" /\ FullHistoryFetched) =>
          LET hist == Val(Val(feed).hist)
              cap == Val(info_get(Val(Val(feed).info), "marketCap", 0))
              last == hist[Len(hist)]
              back == hist[Len(hist) - DROP_LOOKBACK_DAYS + 1]
          IN  /\ candidates # << >> <=>
                    (cap >= MIN_MARKET_CAP /\ (last - back) * 100 <= -MIN_DROP_PERCENT * back)
              /\ candidates # << >> =>
                    /\ Len(candidates) = 1
                    /\ candidates[1].drop_pct.num * back =
                           (last - back) * 100 * candidates[1].drop_pct.den
                    /\ candidates[1].current_price = last
                    /\ candidates[1].market_cap = cap
    /\ stage1_check(1, Example30, 20) =
           << [ticker |-> 1, current_price |-> 70, drop_pct |-> FracInt(-30),
               market_cap |-> MIN_MARKET_CAP] >>
    /\ stage1_check(1, Example30, 35) = << >>

\* a candidate from a 30-row history whose last close is exactly
\* MIN_DROP_PERCENT below the close at the lookback row
C7_Witness ==
    /\ pc = "stage1_done"
    /\ FullHistoryFetched
    /\ candidates # << >>
    /\ Len(Val(Val(feed).hist)) = 30
    /\ candidates[1].drop_pct = FracInt(-20)

----------------------------------------------------------------------------
(* A run over a universe in which more than MAX_CANDIDATES tickers fall.   *)

WideTickers == 1..(MAX_CANDIDATES + 1)

\* every company is large and fell from 150 to 100 over the month
WideStage1Feeds ==
    { [info |-> Some(InfoCap(MIN_MARKET_CAP)), hist |-> Some(Series(22, 5, 150, 100))] }

\* sound with quiet news, or of unknown health
WideStage2Research ==
    { stage2_research(
        [info |-> Some(InfoSound),
         news |-> Some(<< [title |-> TitleQuiet, publisher |-> PubWire] >>),
         news_error |-> << >>, year_hist |-> Some(YearLow)]),
      stage2_research(
        [info |-> Some(InfoNullEquity), news |-> Some(<< >>),
         news_error |-> << >>, year_hist |-> Some(YearHigh)]) }

\* list(set(...)) in two of its orders
WideStart ==
    MainStartOn(WideTickers, { None },
                { [i \in WideTickers |-> i], [i \in WideTickers |-> MAX_CANDIDATES + 2 - i] })
WideStage1 == Stage1StepOn(WideStage1Feeds)
WideStage2 == Stage2StepOn(WideStage2Research)
WideSend == SendEmailOn(WideTickers)

NextWide ==
    \/ WideStart
    \/ WideStage1
    \/ WideStage2
    \/ WideSend
    \/ UpdateMemory
    \/ Exit

SpecWide == InitAt("idle", WideTickers) /\ [][NextWide]_vars

\* C10: the report handed to send_email holds at most MAX_CANDIDATES stocks.
C10_AtMostMaxCandidates ==
    notified # None => Len(Val(notified).stocks) <= MAX_CANDIDATES

----------------------------------------------------------------------------
(* Stage 2 for one candidate over fundamentals, news and a year of closes. *)

\* fundamentals with cash of a quarter of the smallest admitted market cap
InfoCashRich ==
    ("totalDebt" :> Some(10)) @@ ("totalStockholderEquity" :> Some(100)) @@
    ("totalCurrentAssets" :> Some(300)) @@ ("totalCurrentLiabilities" :> Some(100)) @@
    ("totalCash" :> Some(MIN_MARKET_CAP \div 4)) @@ ("totalRevenue" :> Some(500))

\* the candidates stage 1 makes of a fall from 100 to 70 and from 100 to 40
ProbeCandidates ==
    { stage1_iteration(1, [info |-> Some(InfoCap(MIN_MARKET_CAP)),
                           hist |-> Some(Series(22, 5, 100, p))])[1] : p \in {70, 40} }

\* a year of closes ending at `price`: listed 15 sessions ago; 30 sessions,
\* flat at 100 before the fall; 30 sessions, swinging between 40 and 160
\* before the fall
YearShort(price) == Series(15, 5, 100, price)
YearCalm(price) == Series(30, 20, 100, price)
YearWild(price) ==
    [i \in 1..30 |-> IF i < 10 THEN (IF i % 2 = 1 THEN 40 ELSE 160)
                     ELSE IF i = 10 THEN 100 ELSE price]

\* what the providers can answer for a candidate trading at `price`
Stage2ProbeFeeds(price) ==
    { [info |-> i, news |-> n[1], news_error |-> n[2], year_hist |-> y] :
        i \in { None, Some(AbsentInfo), Some(InfoSound), Some(InfoDistressed),
                Some(InfoNullEquity), Some(InfoCashRich) },
        n \in { << Some(<< [title |-> TitleFraud, publisher |-> PubWire] >>), << >> >>,
                << Some(<< [title |-> TitleMiss, publisher |-> PubWire] >>), << >> >>,
                << Some(<< [title |-> TitleQuiet, publisher |-> PubWire] >>), << >> >>,
                << Some(<< >>), << >> >>,
                << None, ErrTimeout >> },
        y \in { None, Some(YearShort(price)), Some(YearCalm(price)),
                Some(YearWild(price)) } }

\* each candidate with each answer and what stage 2 learns from it
Stage2ProbeCases ==
    UNION { { [candidate |-> c, fetched |-> f, research |-> stage2_research(f)] :
                f \in Stage2ProbeFeeds(c.current_price) } : c \in ProbeCandidates }

\* stage2_deep_analysis on a list of one candidate
Stage2Probe ==
    /\ pc = "stage2_probe"
    /\ \E k \in Stage2ProbeCases :
          /\ feed' = Some([candidate |-> k.candidate, fetched |-> k.fetched])
          /\ candidates' = << k.candidate >>
          /\ analyzed_stocks' = stage2_iteration(k.candidate, memory, clock, k.research)
    /\ pc' = "stage2_done"
    /\ UNCHANGED << clock, file, memory, price_alerts, all_tickers, idx, notified, inbox >>

SpecStage2 == InitAt("stage2_probe", Tickers) /\ [][Stage2Probe]_vars

RECURSIVE SumOf(_)
SumOf(s) == IF s = << >> THEN 0 ELSE s[1] + SumOf(Tail(s))

\* the closes before the drop window (the last DROP_LOOKBACK_DAYS rows)
PreDropRows(h) ==
    IF Len(h) <= DROP_LOOKBACK_DAYS THEN << >>
    ELSE SubSeq(h, 1, Len(h) - DROP_LOOKBACK_DAYS)

\* stdev / mean * 100 of the closes w is below pct (population stdev,
\* compared on the squares)
VolatilityBelow(w, pct) ==
    LET n == Len(w)
        sum == SumOf(w)
        squares == SumOf([i \in 1..n |-> w[i] * w[i]])
    IN  10000 * (n * squares - sum * sum) < pct * pct * sum * sum

\* the stability check of the specification: at least two closes before the
\* drop window, and their volatility below the ceiling
PassesStability(h, ceiling_pct) ==
    /\ Len(PreDropRows(h)) >= 2
    /\ VolatilityBelow(PreDropRows(h), ceiling_pct)

\* C11: every stock that stage 2 scores has passed the stability check: it
\* has history before the drop window and the volatility of those closes is
\* below the ceiling (taken as 50 percent here; the stock listed 15 sessions
\* ago fails under every ceiling).
C11_ScoredStockPassedStability ==
    (pc = "stage2_done" /\ analyzed_stocks # << >>) =>
        PassesStability(Val(Val(feed).fetched.year_hist), 50)

\* C12: a stock of unknown financial health has risk score 8, whatever the
\* news class and the size of the fall.
C12_UnknownHealthScoresEight ==
    /\ \A i \in 1..Len(analyzed_stocks) :
          analyzed_stocks[i].financial_health = None => analyzed_stocks[i].risk_score = 8
    /\ \A n \in { SERIOUS, TEMPORARY, UNCLEAR } : calculate_risk_score(None, n) = 8

\* a stock of unknown health with a serious headline after a fall of 60 percent
C12_Witness ==
    /\ pc = "stage2_done"
    /\ analyzed_stocks # << >>
    /\ analyzed_stocks[1].financial_health = None
    /\ analyzed_stocks[1].news_sentiment = SERIOUS
    /\ analyzed_stocks[1].drop_pct = FracInt(-60)

\* the fields of stock.info that get_financial_health reads
FundamentalsKeys ==
    { "totalDebt", "totalStockholderEquity", "totalCurrentAssets",
      "totalCurrentLiabilities", "totalCash", "totalRevenue" }

\* the fundamentals fetch failed, or a field is absent or null
FundamentalsMissing(info_opt) ==
    \/ IsNone(info_opt)
    \/ \E k \in FundamentalsKeys :
          k \notin DOMAIN Val(info_opt) \/ Val(info_opt)[k] = None

\* C13: a candidate whose fundamentals fetch fails or whose fundamentals
\* fields are missing is still analysed (when its news and closes can be
\* read), with unknown health and the fixed risk score 8.
C13_MissingFundamentalsKept ==
    (/\ pc = "stage2_done"
     /\ FundamentalsMissing(Val(feed).fetched.info)
     /\ Val(feed).fetched.year_hist # None) =>
        /\ analyzed_stocks # << >>
        /\ analyzed_stocks[1].financial_health = None
        /\ analyzed_stocks[1].risk_score = 8

\* C15: a stock for which the provider has no headlines (an empty list, or
\* the fetch fails) is classed UNCLEAR with the reason asking for manual
\* research, and its score is the score without a news adjustment.
C15_NoHeadlinesUnclear ==
    (/\ pc = "stage2_done"
     /\ analyzed_stocks # << >>
     /\ Val(feed).fetched.news \in { None, Some(<< >>) }) =>
        /\ analyzed_stocks[1].news_sentiment = UNCLEAR
        /\ analyzed_stocks[1].sentiment_reason = "Need manual research"
        /\ analyzed_stocks[1].risk_score =
               calculate_risk_score(analyzed_stocks[1].financial_health, UNCLEAR)

\* round() of x2 / 2: to the nearest integer, a half to the even neighbour
RoundHalf(x2) ==
    IF x2 % 2 = 0 THEN x2 \div 2
    ELSE LET k == (x2 - 1) \div 2 IN IF k % 2 = 0 THEN k ELSE k + 1

\* twice the score of the specification's point table for a stock of known
\* health h: leverage, liquidity, revenue and news, then +1 for a fall of
\* more than 50 percent, -0.5 for cash above 15 percent of the market cap
\* (compared on whole quotients, which keeps the products within 32 bits)
\* and -0.5 for pre-drop volatility below 10 percent
PointTableTwice(h, news_sentiment, drop_pct, market_cap, year_hist) ==
    LET leverage == IF FracLt(h.debt_to_equity, Frac(3, 10)) THEN -2
                    ELSE IF FracLt(FracInt(1), h.debt_to_equity) THEN 2 ELSE 0
        liquidity == IF FracLt(FracInt(2), h.current_ratio) THEN -1
                     ELSE IF FracLt(h.current_ratio, FracInt(1)) THEN 2 ELSE 0
        revenue == IF h.revenue = Some(0) THEN 2 ELSE 0
        news == IF news_sentiment = SERIOUS THEN 3
                ELSE IF news_sentiment = TEMPORARY THEN -1 ELSE 0
        severity == IF FracLt(drop_pct, FracInt(-50)) THEN 1 ELSE 0
        cushion == IF h.cash # None /\ Val(h.cash) \div 15 > market_cap \div 100 THEN 1 ELSE 0
        calm == IF PassesStability(year_hist, 10) THEN 1 ELSE 0
    IN  2 * (5 + leverage + liquidity + revenue + news + severity) - cushion - calm

\* C16: for known health the risk score is the point table's score with the
\* fall, the cash cushion and the prior stability taken into account, rounded
\* and clamped to 1..10.
C16_ScoreCountsDropCashStability ==
    (/\ pc = "stage2_done"
     /\ analyzed_stocks # << >>
     /\ analyzed_stocks[1].financial_health # None) =>
        LET stock == analyzed_stocks[1]
            twice == PointTableTwice(Val(stock.financial_health), stock.news_sentiment,
                                     stock.drop_pct, Val(feed).candidate.market_cap,
                                     Val(Val(feed).fetched.year_hist))
        IN  stock.risk_score = Max(1, Min(10, RoundHalf(twice)))

----------------------------------------------------------------------------
(* The news classifier over lists of headlines.                            *)

TitleBoth ==
    << "L", "A", "W", "S", "U", "I", "T", " ", "o", "v", "e", "r", " ",
       "G", "U", "I", "D", "A", "N", "C", "E" >>
TitleEndsSec ==
    << "L", "e", "t", "t", "e", "r", " ", "f", "r", "o", "m", " ", "t", "h", "e", " ",
       "S", "E", "C" >>
TitleInquiry == << "I", "n", "q", "u", "i", "r", "y", " ", "w", "i", "d", "e", "n", "s" >>

\* headlines with a serious keyword, with a temporary one, with both, with
\* none, and two that join into "sec inquiry"
NewsTitles == { TitleFraud, TitleMiss, TitleQuiet, TitleBoth, TitleEndsSec, TitleInquiry }

MaxHeadlines == 3

HeadlineLists == UNION { [1..n -> NewsTitles] : n \in 0..MaxHeadlines }

\* analyze_news_sentiment on one list of headlines
NewsProbe ==
    /\ pc = "news_probe"
    /\ \E hs \in HeadlineLists :
          feed' = Some([headlines |-> hs, result |-> analyze_news_sentiment(hs)])
    /\ pc' = "news_done"
    /\ UNCHANGED << clock, file, memory, price_alerts, all_tickers, idx, candidates,
                    analyzed_stocks, notified, inbox >>

SpecNews == InitAt("news_probe", Tickers) /\ [][NewsProbe]_vars

\* a serious keyword is in the lower-cased, joined headlines hs
SeriousMatch(hs) ==
    \/ \E i \in 1..Len(hs) : hs[i] \in { TitleFraud, TitleBoth }
    \/ \E i \in 1..(Len(hs) - 1) : hs[i] = TitleEndsSec /\ hs[i + 1] = TitleInquiry

\* a temporary keyword is in them
TemporaryMatch(hs) == \E i \in 1..Len(hs) : hs[i] \in { TitleMiss, TitleBoth }

\* C14: the class is SERIOUS if a serious keyword matches (also when a
\* temporary one matches too), else TEMPORARY if a temporary keyword matches,
\* else UNCLEAR; no keyword is in both lists.
C14_NewsClassifier ==
    /\ pc = "news_done" =>
          Val(feed).result[1] =
              IF SeriousMatch(Val(feed).headlines) THEN SERIOUS
              ELSE IF TemporaryMatch(Val(feed).headlines) THEN TEMPORARY
              ELSE UNCLEAR
    /\ { serious_keywords[i] : i \in 1..Len(serious_keywords) } \cap
       { temporary_keywords[i] : i \in 1..Len(temporary_keywords) } = {}

\* a list with an upper-case headline holding keywords of both lists, after
\* a headline without any, is classed SERIOUS
C14_Witness ==
    /\ pc = "news_done"
    /\ Val(feed).headlines = << TitleQuiet, TitleBoth >>
    /\ Val(feed).result[1] = SERIOUS

----------------------------------------------------------------------------
(* Runs that start on a memory file the program did not write.             *)

\* unreadable text, a JSON list, an object without one or both mappings, a
\* timestamp that is no ISO date, a tracked entry without a price
CorruptFiles ==
    { Unparseable,
      NotADict,
      EmptyDict,
      [tracked_prices |-> EmptyDict],
      [sent_stocks |-> EmptyDict],
      [sent_stocks |-> (1 :> GarbledTimestamp),
       tracked_prices |-> (1 :> [price |-> 100, date |-> 0])],
      [sent_stocks |-> EmptyDict, tracked_prices |-> (1 :> [date |-> 0])] }

InitCorrupt ==
    /\ clock = 0
    /\ file \in { Some(c) : c \in CorruptFiles }
    /\ pc = "idle"
    /\ memory = EmptyMemory
    /\ price_alerts = {}
    /\ all_tickers = << >>
    /\ idx = 0
    /\ candidates = << >>
    /\ analyzed_stocks = << >>
    /\ notified = None
    /\ inbox = [t \in Tickers |-> << >>]
    /\ feed = None

\* the first ticker fell from 150 to 100, or the provider raises
CorruptStage1Feeds ==
    { [info |-> None, hist |-> None],
      [info |-> Some(InfoCap(MIN_MARKET_CAP)), hist |-> Some(Series(22, 5, 150, 100))] }

CorruptStart == MainStartOn(Tickers, { Some(62), Some(95) }, { << 1, 2 >>, << 2, 1 >> })
CorruptStage1 == Stage1StepOn(CorruptStage1Feeds)
CorruptStage2 == Stage2StepOn(WideStage2Research)
CorruptSend == SendEmailOn(Tickers)

NextCorrupt ==
    \/ CorruptStart
    \/ CorruptStage1
    \/ CorruptStage2
    \/ CorruptSend
    \/ UpdateMemory
    \/ Exit

SpecCorrupt == InitCorrupt /\ [][NextCorrupt]_vars

\* the file holds a store of the layout the program writes
WellFormedStore(m) ==
    /\ DOMAIN m = { "sent_stocks", "tracked_prices" }
    /\ \A t \in DOMAIN m.sent_stocks : DOMAIN m.sent_stocks[t] = { "date", "time" }
    /\ \A t \in DOMAIN m.tracked_prices : DOMAIN m.tracked_prices[t] = { "price", "date" }

\* C17: a run that starts on an unreadable or malformed memory file never
\* aborts, and its price-alert scan finds what it finds on an empty store:
\* nothing.
C17_CorruptStoreRunCompletes ==
    /\ pc # "crashed"
    /\ (ScanJustRan /\ file # None /\ ~WellFormedStore(Val(file))) => price_alerts = {}

----------------------------------------------------------------------------
(* Runs in which the write of the memory file is followed step by step.    *)

\* open(MEMORY_FILE, 'w'): the file is cut to length zero before anything is
\* written
open_for_write(f) == Some(Unparseable)

StorageStart == MainStartOn(Tickers, { Some(62), Some(95) }, { << 1, 2 >>, << 2, 1 >> })
StorageStage1 == Stage1StepOn(CorruptStage1Feeds)
StorageStage2 == Stage2StepOn(WideStage2Research)
StorageSend == SendEmailOn(Tickers)

\* main, lines 654-660, and save_memory up to line 77: the memory is updated
\* and the file opened for writing; an open that raises is caught and printed
SaveOpen ==
    /\ pc = "update"
    /\ ~update_memory_raises(memory, analyzed_stocks)
    /\ memory' = update_memory(memory, analyzed_stocks, clock)
    /\ \/ file' = open_for_write(file) /\ pc' = "saving"
       \/ file' = file /\ pc' = "done"
    /\ UNCHANGED << clock, price_alerts, all_tickers, idx, candidates, analyzed_stocks,
                    notified, inbox, feed >>

\* save_memory, line 78: json.dump writes the whole record
SaveDump ==
    /\ pc = "saving"
    /\ file' = save_memory(memory)
    /\ pc' = "done"
    /\ UNCHANGED << clock, memory, price_alerts, all_tickers, idx, candidates,
                    analyzed_stocks, notified, inbox, feed >>

\* save_memory, lines 79-80: the write raises part-way (the disk is full);
\* the exception is printed and the run goes on
SaveFails ==
    /\ pc = "saving"
    /\ pc' = "done"
    /\ UNCHANGED << clock, file, memory, price_alerts, all_tickers, idx, candidates,
                    analyzed_stocks, notified, inbox, feed >>

\* the process is stopped while the file is open
SaveInterrupted ==
    /\ pc = "saving"
    /\ pc' = "crashed"
    /\ UNCHANGED << clock, file, memory, price_alerts, all_tickers, idx, candidates,
                    analyzed_stocks, notified, inbox, feed >>

NextStorage ==
    \/ StorageStart
    \/ StorageStage1
    \/ StorageStage2
    \/ StorageSend
    \/ SaveOpen
    \/ SaveDump
    \/ SaveFails
    \/ SaveInterrupted
    \/ Exit

SpecStorage == InitAt("idle", Tickers) /\ [][NextStorage]_vars

\* C18: whatever is in the memory file at any moment is a whole store, never
\* a partial or unreadable record.
C18_StoredRecordWhole == file # None => WellFormedStore(Val(file))

----------------------------------------------------------------------------
(* A batch in which the providers' answers for every ticker are on record. *)

\* stage 1: the provider raises, a flat month, a fall from 150 to 100
BatchStage1Feeds ==
    { [info |-> None, hist |-> None],
      [info |-> Some(InfoCap(MIN_MARKET_CAP)), hist |-> Some(Series(22, 5, 100, 100))],
      [info |-> Some(InfoCap(MIN_MARKET_CAP)), hist |-> Some(Series(22, 5, 150, 100))] }

\* stage 2: the provider raises, or one of the answers of WideStage2Research
BatchStage2Research == { None } \cup WideStage2Research

\* main, lines 620-630: as MainStartOn, with the answers the providers will
\* give for each ticker in stage 1 and stage 2 kept in feed
BatchStart ==
    /\ pc = "idle"
    /\ memory' = load_memory(file)
    /\ ~check_price_alerts_raises(memory')
    /\ price_alerts' = check_price_alerts(memory', [t \in Tickers |-> None])
    /\ \E a \in [Tickers -> BatchStage1Feeds], b \in [Tickers -> BatchStage2Research] :
          feed' = Some([stage1 |-> a, stage2 |-> b])
    /\ all_tickers' \in list_of_set(extended_tickers)
    /\ idx' = 1
    /\ candidates' = << >>
    /\ analyzed_stocks' = << >>
    /\ notified' = None
    /\ pc' = "stage1"
    /\ UNCHANGED << clock, file, inbox >>

\* where main goes after stage 1 (lines 632-642)
after_stage1(found) ==
    IF found = << >> /\ price_alerts = {} THEN "done"
    ELSE IF found # << >> THEN "stage2"
    ELSE "email"

\* one pass of stage 1's loop whose try block spans the whole loop: the
\* first fetch that raises ends the stage
BatchStage1_abort_on_error ==
    /\ pc = "stage1"
    /\ LET fetched == Val(feed).stage1[all_tickers[idx]]
       IN  /\ candidates' = candidates \o stage1_iteration(all_tickers[idx], fetched)
           /\ IF idx < Len(all_tickers) /\ fetched.info # None
              THEN idx' = idx + 1 /\ pc' = "stage1"
              ELSE idx' = 1 /\ pc' = after_stage1(candidates')
    /\ UNCHANGED << clock, file, memory, price_alerts, all_tickers, analyzed_stocks,
                    notified, inbox, feed >>

\* one pass of stage 1's loop (lines 177-212) on the recorded answer
BatchStage1 ==
    /\ pc = "stage1"
    /\ candidates' =
          candidates \o stage1_iteration(all_tickers[idx], Val(feed).stage1[all_tickers[idx]])
    /\ IF idx < Len(all_tickers)
       THEN idx' = idx + 1 /\ pc' = "stage1"
       ELSE idx' = 1 /\ pc' = after_stage1(candidates')
    /\ UNCHANGED << clock, file, memory, price_alerts, all_tickers, analyzed_stocks,
                    notified, inbox, feed >>

\* one pass of stage 2's loop (lines 352-414) on the recorded answer
BatchStage2 ==
    /\ pc = "stage2"
    /\ IF should_send_stock_raises(candidates[idx].ticker, memory)
       THEN /\ analyzed_stocks' = analyzed_stocks
            /\ idx' = idx
            /\ pc' = "crashed"
       ELSE /\ analyzed_stocks' =
                  analyzed_stocks \o stage2_iteration(candidates[idx], memory, clock,
                                                      Val(feed).stage2[candidates[idx].ticker])
            /\ IF idx < Len(candidates)
               THEN idx' = idx + 1 /\ pc' = "stage2"
               ELSE /\ idx' = 1
                    /\ pc' = IF analyzed_stocks' # << >> \/ price_alerts # {} THEN "email"
                             ELSE "done"
    /\ UNCHANGED << clock, file, memory, price_alerts, all_tickers, candidates,
                    notified, inbox, feed >>

NextBatch ==
    \/ BatchStart
    \/ BatchStage1
    \/ BatchStage2
    \/ Exit

SpecBatch == InitAt("idle", Tickers) /\ [][NextBatch]_vars

\* the provider raised for ticker t in stage 1 / in stage 2
FailedInStage1(t) == Val(feed).stage1[t].info = None
FailedInStage2(t) == Val(feed).stage2[t] = None

\* stage 1 over a list of tickers, stage 2 over a list of candidates
RECURSIVE Stage1Of(_)
Stage1Of(tickers) ==
    IF tickers = << >> THEN << >>
    ELSE stage1_iteration(tickers[1], Val(feed).stage1[tickers[1]]) \o Stage1Of(Tail(tickers))

RECURSIVE Stage2Of(_)
Stage2Of(cands) ==
    IF cands = << >> THEN << >>
    ELSE stage2_iteration(cands[1], memory, clock, Val(feed).stage2[cands[1].ticker])
            \o Stage2Of(Tail(cands))

CandidateHealthy(c) == ~FailedInStage2(c.ticker)
TickerHealthy(t) == ~FailedInStage1(t)

\* C19: a symbol whose data cannot be fetched is skipped and nothing else:
\* the batch runs to its end, and the candidates and analysed stocks are those
\* of the universe without the failing symbols.
C19_FailureSkipsOnlyThatSymbol ==
    /\ pc # "crashed"
    /\ (pc \in {"stage2", "email", "done"} /\ feed # None) =>
          candidates = Stage1Of(SelectSeq(all_tickers, TickerHealthy))
    /\ (pc \in {"email", "done"} /\ feed # None) =>
          analyzed_stocks = Stage2Of(SelectSeq(candidates, CandidateHealthy))

\* the first ticker's fetch raised in stage 1 and the second ticker went
\* through both stages
C19_Witness ==
    /\ pc = "email"
    /\ feed # None
    /\ FailedInStage1(all_tickers[1])
    /\ Len(analyzed_stocks) = 1
    /\ analyzed_stocks[1].ticker = all_tickers[2]

----------------------------------------------------------------------------
(* Stage 1 on histories shorter than the lookback window.                  *)

\* the fetch gave a market cap and a history that starts at a positive close
ShortHistoryFetched ==
    /\ feed # None
    /\ Val(feed).info # None
    /\ info_get(Val(Val(feed).info), "marketCap", 0) # None
    /\ Val(feed).hist # None
    /\ Len(Val(Val(feed).hist)) < DROP_LOOKBACK_DAYS
    /\ Val(Val(feed).hist)[1] > 0

\* C20 as stated: stage 1 emits no candidate for a history of fewer rows than
\* the lookback window, DROP_LOOKBACK_DAYS.
C20_ShortHistoryRejected ==
    (pc = "stage1_done" /\ ShortHistoryFetched) => candidates = << >>

\* C20 as amended: stage 1 emits no candidate for a history of fewer than
\* MIN_HISTORY_ROWS rows; for MIN_HISTORY_ROWS rows up to the lookback window
\* it measures the fall from the first row, and emits a candidate if and only
\* if the market cap is at least MIN_MARKET_CAP and that fall is at least
\* MIN_DROP_PERCENT.
C20_ShortHistoryFromFirstRow ==
    (pc = "stage1_done" /\ ShortHistoryFetched) =>
        LET hist == Val(Val(feed).hist)
            cap == Val(info_get(Val(Val(feed).info), "marketCap", 0))
            last == hist[Len(hist)]
            first == hist[1]
        IN  /\ Len(hist) < MIN_HISTORY_ROWS => candidates = << >>
            /\ Len(hist) >= MIN_HISTORY_ROWS =>
                  /\ candidates # << >> <=>
                        (cap >= MIN_MARKET_CAP
                         /\ (last - first) * 100 <= -MIN_DROP_PERCENT * first)
                  /\ candidates # << >> =>
                        candidates[1].drop_pct.num * first =
                            (last - first) * 100 * candidates[1].drop_pct.den

\* a candidate from a history of exactly MIN_HISTORY_ROWS rows that fell from
\* 100 to 70
C20_Witness ==
    /\ pc = "stage1_done"
    /\ ShortHistoryFetched
    /\ Len(Val(Val(feed).hist)) = MIN_HISTORY_ROWS
    /\ candidates # << >>
    /\ candidates[1].drop_pct = FracInt(-30)

----------------------------------------------------------------------------
(* Claims about the ticker universe.                                       *)

\* how often ticker t is listed in the tables together
TimesListed(t) == Cardinality({ i \in 1..Len(extended_tickers) : extended_tickers[i] = t })

\* C21: no ticker is twice in the report of a run, also when several ticker
\* tables list it.
C21_TickerOnceInOutput ==
    notified # None =>
        \A i, j \in 1..Len(Val(notified).stocks) :
            i # j => Val(notified).stocks[i].ticker # Val(notified).stocks[j].ticker

\* a report of all tickers, each of them listed in two tables
C21_Witness ==
    /\ notified # None
    /\ Len(Val(notified).stocks) = NumTickers
    /\ \E i \in 1..Len(Val(notified).stocks) : TimesListed(Val(notified).stocks[i].ticker) > 1

----------------------------------------------------------------------------
(* Runs under a wall clock that is also set back.                          *)

\* datetime.now() is the machine's local wall clock: besides running on it
\* is set back now and then, by any amount between two runs (another
\* machine, a corrected clock) and by less than a day while a run waits for
\* its memory update (end of daylight saving time, the time service)
ClockSetBack ==
    /\ pc \in {"idle", "update"}
    /\ \E t \in ClockReadings :
          /\ t < clock
          /\ pc = "update" => clock - t < TicksPerDay
          /\ clock' = t
    /\ UNCHANGED << file, pc, memory, price_alerts, all_tickers, idx, candidates,
                    analyzed_stocks, notified, inbox, feed >>

ClockStart == MainStartOn(Tickers, { Some(95) }, list_of_set(extended_tickers))
ClockStage1 == Stage1StepOn(CorruptStage1Feeds)
ClockStage2 == Stage2StepOn(WideStage2Research)
ClockSend == SendEmailOn(Tickers)

NextClock ==
    \/ Tick
    \/ ClockSetBack
    \/ ClockStart
    \/ ClockStage1
    \/ ClockStage2
    \/ ClockSend
    \/ UpdateMemory
    \/ Exit

SpecClock == Init /\ [][NextClock]_vars

----------------------------------------------------------------------------
(* Claims about the order of the report.                                   *)

\* the report of a run over the tickers in the given order, on the recorded
\* answers of the providers and the memory and clock of the state
ReportOf(tickers) == generate_email_html(Stage2Of(Stage1Of(tickers)))

\* C23: the run is deterministic: every run on the same ticker tables, the
\* same answers of the providers, the same memory and the same clock makes
\* the same report in the same order as this one.
C23_SameReportOnSameInputs ==
    (pc = "email" /\ feed # None) =>
        \A tickers \in list_of_set(extended_tickers) :
            ReportOf(tickers) = generate_email_html(analyzed_stocks)

----------------------------------------------------------------------------
(* Claims about the point table for known health.                          *)

\* the points a condition adds when it holds
Points(condition, points) == IF condition THEN points ELSE 0

\* C24: for known health the risk score is 5, -2 for debt/equity below 0.3
\* or +2 for debt/equity above 1.0, -1 for a current ratio above 2.0 or +2
\* for one below 1.0, +2 for a revenue of 0, +3 for serious news or -1 for
\* temporary news, clamped to 1..10.
C24_KnownHealthPointTable ==
    (/\ pc = "risk_done"
     /\ analyzed_stocks # << >>
     /\ analyzed_stocks[1].financial_health # None) =>
        LET stock == analyzed_stocks[1]
            h == Val(stock.financial_health)
            de == h.debt_to_equity
            cr == h.current_ratio
            total ==
                5 + Points(10 * de.num < 3 * de.den, -2) + Points(de.num > de.den, 2)
                  + Points(cr.num > 2 * cr.den, -1) + Points(cr.num < cr.den, 2)
                  + Points(h.revenue = Some(0), 2)
                  + Points(stock.news_sentiment = SERIOUS, 3)
                  + Points(stock.news_sentiment = TEMPORARY, -1)
        IN  /\ de.den > 0 /\ cr.den > 0
            /\ stock.risk_score = (IF total < 1 THEN 1 ELSE IF total > 10 THEN 10 ELSE total)

\* known health on both borders of the table (debt equal to equity, current
\* assets twice the liabilities), revenue above 0 and temporary news: 5 - 1
C24_Witness ==
    /\ pc = "risk_done"
    /\ analyzed_stocks # << >>
    /\ analyzed_stocks[1].financial_health # None
    /\ LET h == Val(analyzed_stocks[1].financial_health)
       IN  /\ h.debt_to_equity.num = h.debt_to_equity.den
           /\ h.current_ratio.num = 2 * h.current_ratio.den
           /\ h.revenue = Some(500)
    /\ analyzed_stocks[1].news_sentiment = TEMPORARY
    /\ analyzed_stocks[1].risk_score = 4

----------------------------------------------------------------------------
(* Claims about the life of the store's entries.                           *)

\* the step in which a run loads the store and scans the tracked prices
ScanStep == pc = "idle" /\ pc' = "stage1"

====
